---- MODULE Spec2Model ----
(***************************************************************************)
(* Model of the equiv_induct pass (EquivInductPass::execute and            *)
(* EquivInductWorker) : temporal induction over $equiv marker cells.       *)
(* The netlist, the signal canonicaliser, the cell encoder and the SAT     *)
(* solver are modelled semantically: the solver state is the set of steps  *)
(* encoded, assumed and bound, and solve() is decided by enumerating the   *)
(* assignments of the free bits of the unrolled circuit.                   *)
(***************************************************************************)
EXTENDS Integers, Sequences, FiniteSets, TLC

VARIABLES
    args,                  \* command line after the command name: sequence of words, a word a sequence of characters
    design,                \* sequence of modules (cells, connections, selection)
    pc,                    \* position of the command: parse, modules, base, induct, fallback, done, error
    runs,                  \* number of times the command was started
    printed,               \* totals logged by "Proved %d previously unproven $equiv cells."
    modidx,                \* index of the module the driver loop is at
    max_seq,               \* EquivInductPass::execute max_seq
    total,                 \* EquivInductPass::execute success_counter
    workset,               \* EquivInductWorker::workset (cell ids)
    step,                  \* loop variable of EquivInductWorker::run
    success_counter,       \* EquivInductWorker::success_counter
    todo,                  \* cells of the workset the fallback loop has not visited yet
    ez_step_is_consistent, \* EquivInductWorker::ez_step_is_consistent: step -> set of (bit_a, bit_b) terms
    assumed,               \* steps i whose consistent[i] was given to ez.assume
    bound,                 \* steps i whose NOT consistent[i] was given to ez.bind
    cell_warn_cache,       \* EquivInductWorker::cell_warn_cache
    warnings,              \* number of log_warning calls of the current worker
    queries,               \* solver queries of the current worker, in order
    nworkers,              \* number of workers (and solvers) constructed by the current command
    wmod,                  \* index of the module of the current (or last) worker, 0 when none
    pre,                   \* the design as it was when the current command started
    cmp_source,            \* opt_compare: the copy of the pass that is built
    cmp_cell,              \* opt_compare: the comparison cell the module was given
    cmp_cells,             \* opt_compare: names of the cells in the module
    cmp_not,               \* opt_compare: the cells added by addNot
    cmp_connections,       \* opt_compare: connections added by module->connect
    cmp_sorted,            \* opt_compare: cells.sorted not yet visited
    cmp_log,               \* opt_compare: log lines
    cmp_pc                 \* opt_compare: idle, start, cells, done

equivVars == <<args, design, pc, runs, printed, modidx, max_seq, total, workset, step,
               success_counter, todo, ez_step_is_consistent, assumed, bound,
               cell_warn_cache, warnings, queries, nworkers, wmod, pre>>

cmpVars == <<cmp_source, cmp_cell, cmp_cells, cmp_not, cmp_connections,
             cmp_sorted, cmp_log, cmp_pc>>

vars == <<equivVars, cmpVars>>

----------------------------------------------------------------------------
(* Bounds *)

MaxSeq == 2      \* largest digit used in a -seq word
MaxRuns == 2     \* number of successive runs of the command
MaxAWidth == 2   \* largest A_WIDTH of a comparison cell
MaxYWidth == 2   \* largest Y_WIDTH of a comparison cell
MaxBWidth == 2   \* largest width of port B of a comparison cell

DefaultMaxSeq == 4

----------------------------------------------------------------------------
(* Netlist *)

Wires == <<"a", "b", "c", "n1", "n2", "q1", "q2", "r1", "r2", "o1", "o2", "o3">>

WireSet == {Wires[i] : i \in 1..Len(Wires)}

Consts == {"0", "1"}

Bits == WireSet \cup Consts

Cell(t, a, b, y) == [type |-> t, A |-> a, B |-> b, Y |-> y]

Mod(cs, cn, sel) == [cells |-> cs, conns |-> cn, selected |-> sel]

CellIds(m) == 1..Len(m.cells)

\* module->selected_cells()
selected_cells(m) == {i \in CellIds(m) : i \in m.selected}

----------------------------------------------------------------------------
(* Signal canonicaliser (SigMap) *)

Alias(conns, S) ==
    S \cup {p[2] : p \in {c \in conns : c[1] \in S}}
      \cup {p[1] : p \in {c \in conns : c[2] \in S}}

RECURSIVE AliasClass(_, _)
AliasClass(conns, S) ==
    LET T == Alias(conns, S) IN IF T = S THEN S ELSE AliasClass(conns, T)

WireIndex(w) == CHOOSE i \in 1..Len(Wires) : Wires[i] = w

\* sigmap(bit): the representative of the bit's alias class; a constant when
\* the class holds one, otherwise the first wire of the class
Canon(conns, bit) ==
    LET cl == AliasClass(conns, {bit}) IN
    IF "0" \in cl THEN "0"
    ELSE IF "1" \in cl THEN "1"
    ELSE LET k == CHOOSE i \in {WireIndex(w) : w \in cl} :
                      \A j \in {WireIndex(w) : w \in cl} : i <= j
         IN Wires[k]

SigMap(m) == [b \in Bits |-> Canon(m.conns, b)]

----------------------------------------------------------------------------
(* Cell encoder (SatGen::importCell) and solver (ezSAT), decided semantically *)

Modellable == {"$and", "$not", "$dff", "$equiv"}

\* satgen.importCell(cell, step): whether the cell type has a SAT model
importCell(cell) == cell.type \in Modellable

\* the selected, modellable cell driving each canonical bit (0: none)
Drivers(m, sm) ==
    [b \in Bits |->
        LET ds == {i \in selected_cells(m) :
                      importCell(m.cells[i]) /\ sm[m.cells[i].Y] = b}
        IN IF ds = {} THEN 0 ELSE CHOOSE i \in ds : TRUE]

\* the solver variables without a defining clause that a bit at a step
\* depends on
RECURSIVE Support(_, _, _, _, _, _)
Support(m, sm, drv, enc, bit, s) ==
    LET b == sm[bit] IN
    IF b \in Consts THEN {}
    ELSE IF s \notin enc \/ drv[b] = 0 THEN {<<b, s>>}
    ELSE LET c == m.cells[drv[b]] IN
         CASE c.type = "$and"   -> Support(m, sm, drv, enc, c.A, s) \cup Support(m, sm, drv, enc, c.B, s)
           [] c.type = "$not"   -> Support(m, sm, drv, enc, c.A, s)
           [] c.type = "$equiv" -> Support(m, sm, drv, enc, c.A, s)
           [] c.type = "$dff"   -> IF s = 1 THEN {<<b, s>>}
                                   ELSE Support(m, sm, drv, enc, c.A, s - 1)

\* the free variables the literals of a query mention
FreeBits(m, sm, drv, enc, cons, steps, q) ==
    UNION {Support(m, sm, drv, enc, t[1], s) \cup Support(m, sm, drv, enc, t[2], s) :
              <<t, s>> \in {x \in (UNION {cons[i] : i \in enc}) \X steps :
                               x[1] \in cons[x[2]]}}
    \cup (IF q.kind = "xor"
          THEN Support(m, sm, drv, enc, q.a, q.step) \cup Support(m, sm, drv, enc, q.b, q.step)
          ELSE {})

\* value of a bit at a step under an assignment f of the free bits
RECURSIVE Val(_, _, _, _, _, _, _)
Val(m, sm, drv, enc, f, bit, s) ==
    LET b == sm[bit] IN
    IF b = "0" THEN FALSE
    ELSE IF b = "1" THEN TRUE
    ELSE IF s \notin enc \/ drv[b] = 0 THEN f[<<b, s>>]
    ELSE LET c == m.cells[drv[b]] IN
         CASE c.type = "$and"   -> Val(m, sm, drv, enc, f, c.A, s) /\ Val(m, sm, drv, enc, f, c.B, s)
           [] c.type = "$not"   -> ~Val(m, sm, drv, enc, f, c.A, s)
           [] c.type = "$equiv" -> Val(m, sm, drv, enc, f, c.A, s)
           [] c.type = "$dff"   -> IF s = 1 THEN f[<<b, s>>]
                                   ELSE Val(m, sm, drv, enc, f, c.A, s - 1)

\* consistent[s] under an assignment: every A <-> B term of the step holds
Consistent(m, sm, drv, enc, cons, f, s) ==
    \A t \in cons[s] :
        Val(m, sm, drv, enc, f, t[1], s) = Val(m, sm, drv, enc, f, t[2], s)

NoAssumption == [kind |-> "none", a |-> "0", b |-> "0", step |-> 0]
NotConsistent(s) == [kind |-> "not", a |-> "0", b |-> "0", step |-> s]
Xor(a, b, s) == [kind |-> "xor", a |-> a, b |-> b, step |-> s]

\* ez.assume(lit): a permanent unit clause
ez_assume(asm, s) == asm \cup {s}

\* ez.bind(lit): a permanent unit clause
ez_bind(bnd, s) == bnd \cup {s}

\* ez.solve(q): TRUE (SAT) iff some assignment satisfies the cell clauses,
\* the assumed and bound literals and the assumption q
ez_solve(m, cons, asm, bnd, q) ==
    LET sm == SigMap(m)
        drv == Drivers(m, sm)
        enc == DOMAIN cons
        steps == asm \cup bnd \cup (IF q.kind = "not" THEN {q.step} ELSE {})
        fb == FreeBits(m, sm, drv, enc, cons, steps, q)
    IN \E f \in [fb -> BOOLEAN] :
          /\ \A s \in asm : Consistent(m, sm, drv, enc, cons, f, s)
          /\ \A s \in bnd : ~Consistent(m, sm, drv, enc, cons, f, s)
          /\ CASE q.kind = "none" -> TRUE
               [] q.kind = "not"  -> ~Consistent(m, sm, drv, enc, cons, f, q.step)
               [] q.kind = "xor"  -> Val(m, sm, drv, enc, f, q.a, q.step)
                                      # Val(m, sm, drv, enc, f, q.b, q.step)

----------------------------------------------------------------------------
(* Command line *)

NameWord == <<"e", "q", "u", "i", "v", "_", "i", "n", "d", "u", "c", "t">>
SeqWord == <<"-", "s", "e", "q">>

DigitChars == <<"0", "1", "2", "3", "4", "5", "6", "7", "8", "9">>

IsDigit(c) == \E i \in 1..Len(DigitChars) : DigitChars[i] = c

DigitVal(c) == (CHOOSE i \in 1..Len(DigitChars) : DigitChars[i] = c) - 1

RECURSIVE AtoiDigits(_, _)
AtoiDigits(w, acc) ==
    IF w = <<>> \/ ~IsDigit(Head(w)) THEN acc
    ELSE AtoiDigits(Tail(w), acc * 10 + DigitVal(Head(w)))

\* atoi(word): optional sign, then the leading digits; 0 when there are none
atoi(w) ==
    IF w # <<>> /\ Head(w) = "-" THEN 0 - AtoiDigits(Tail(w), 0)
    ELSE AtoiDigits(w, 0)

\* the option loop of execute; argidx counts from 0 as in the code
RECURSIVE ParseOptions(_, _, _)
ParseOptions(a, argidx, ms) ==
    IF argidx < Len(a) /\ a[argidx + 1] = SeqWord /\ argidx + 1 < Len(a)
    THEN ParseOptions(a, argidx + 2, atoi(a[argidx + 2]))
    ELSE [max_seq |-> ms, argidx |-> argidx]

\* Pass::extra_args: a remaining word that starts with '-' is an unknown
\* option (fatal command error); anything else is a selection
extra_args_ok(a, argidx) ==
    ~(argidx < Len(a) /\ a[argidx + 1] # <<>> /\ a[argidx + 1][1] = "-")

SeqValues ==
    {<<DigitChars[d + 1]>> : d \in 0..MaxSeq}
    \cup {<<"-", "1">>, <<"x">>, <<"1", "x">>}

ArgLists ==
    {<<NameWord>>, <<NameWord, SeqWord>>}
    \cup {<<NameWord, SeqWord, v>> : v \in SeqValues}

----------------------------------------------------------------------------
(* Modules the command is run on *)

\* two isomorphic AND gates of the same inputs, compared by two markers
Comb ==
    Mod(<<Cell("$and", "a", "b", "n1"), Cell("$and", "a", "b", "n2"),
          Cell("$equiv", "n1", "n2", "o1"), Cell("$equiv", "n2", "n1", "o2")>>,
        {}, {1, 2, 3, 4})

\* constant 0 against constant 1
Diverge == Mod(<<Cell("$equiv", "0", "1", "o1")>>, {}, {1})

\* two flip-flops whose data inputs compute the same function
TwoFlops ==
    Mod(<<Cell("$not", "a", "0", "n1"), Cell("$not", "a", "0", "n2"),
          Cell("$dff", "n1", "0", "q1"), Cell("$dff", "n2", "0", "q2"),
          Cell("$equiv", "q1", "q2", "o1")>>, {}, {1, 2, 3, 4, 5})

\* two flip-flops, each fed by the inverse of its own output
TwoFlopsFb ==
    Mod(<<Cell("$not", "q1", "0", "n1"), Cell("$not", "q2", "0", "n2"),
          Cell("$dff", "n1", "0", "q1"), Cell("$dff", "n2", "0", "q2"),
          Cell("$equiv", "q1", "q2", "o1")>>, {}, {1, 2, 3, 4, 5})

\* one marker that cannot be proven, one that can, one that is not selected
Partial ==
    Mod(<<Cell("$equiv", "a", "b", "o1"),
          Cell("$and", "a", "c", "n1"), Cell("$and", "a", "c", "n2"),
          Cell("$equiv", "n1", "n2", "o2"),
          Cell("$equiv", "c", "b", "o3")>>, {}, {1, 2, 3, 4})

\* a marker whose A and B are aliased by a connection, and an unprovable one
Aliased ==
    Mod(<<Cell("$equiv", "a", "b", "o1"), Cell("$equiv", "c", "r1", "o2")>>,
        {<<"a", "b">>}, {1, 2})

\* every selected marker is proven already
Proven ==
    Mod(<<Cell("$equiv", "a", "a", "o1"), Cell("$equiv", "a", "b", "o2")>>,
        {}, {1})

\* a cell type without a SAT model
Custom ==
    Mod(<<Cell("$custom", "a", "0", "n1"),
          Cell("$not", "b", "0", "r1"), Cell("$not", "b", "0", "r2"),
          Cell("$equiv", "r1", "r2", "o1"),
          Cell("$equiv", "n1", "a", "o2")>>, {}, {1, 2, 3, 4, 5})

\* two pipelines of two flip-flops each; only the last stage is compared
Pipeline ==
    Mod(<<Cell("$dff", "a", "0", "r1"), Cell("$dff", "a", "0", "r2"),
          Cell("$dff", "r1", "0", "q1"), Cell("$dff", "r2", "0", "q2"),
          Cell("$equiv", "q1", "q2", "o1")>>, {}, {1, 2, 3, 4, 5})

Catalog == {Comb, Diverge, TwoFlops, TwoFlopsFb, Partial, Aliased, Proven, Custom, Pipeline}

Designs ==
    {<<m>> : m \in Catalog}
    \cup {<<Proven, Partial>>, <<Partial, Proven>>, <<Comb, Aliased>>,
          <<Diverge, TwoFlops>>}

----------------------------------------------------------------------------
(* EquivInductPass::execute: the workset of a module *)

\* faulty variant: the selection is not consulted
unproven_any_cell(m) ==
    {i \in CellIds(m) :
        m.cells[i].type = "$equiv" /\ m.cells[i].A # m.cells[i].B}

\* the selected $equiv cells whose port A differs from port B as written
unproven_equiv_cells(m) ==
    {i \in selected_cells(m) :
        m.cells[i].type = "$equiv" /\ m.cells[i].A # m.cells[i].B}

----------------------------------------------------------------------------
(* EquivInductWorker *)

\* faulty variant: the warning cache is not consulted
NewWarnings_nocache(m, cache) ==
    {i \in selected_cells(m) : ~importCell(m.cells[i])}

\* cells whose import fails and that are not in the warning cache yet
NewWarnings(m, cache) ==
    {i \in selected_cells(m) : ~importCell(m.cells[i]) /\ i \notin cache}

\* faulty variant: the ports are compared as written, not canonically
ez_equal_terms_written(m) ==
    LET sm == SigMap(m) IN
    {<<sm[m.cells[i].A], sm[m.cells[i].B]>> :
        i \in {j \in selected_cells(m) :
                  /\ m.cells[j].type = "$equiv"
                  /\ m.cells[j].A # m.cells[j].B}}

\* the A <-> B terms create_timestep collects for one step
ez_equal_terms(m) ==
    LET sm == SigMap(m) IN
    {<<sm[m.cells[i].A], sm[m.cells[i].B]>> :
        i \in {j \in selected_cells(m) :
                  /\ m.cells[j].type = "$equiv"
                  /\ sm[m.cells[j].A] # sm[m.cells[j].B]}}

\* log_assert(!ez_step_is_consistent.count(step))
StepUndefined(cons, s) == s \notin DOMAIN cons

\* ez_step_is_consistent after create_timestep(s)
create_timestep(m, cons, s) == cons @@ (s :> ez_equal_terms(m))

\* faulty variant: the first cell of the module is rewritten, not the current one
setPortB_first(m, i) == [m EXCEPT !.cells[1].B = m.cells[1].A]

\* faulty variant: the port is set to its own value
setPortB_same(m, i) == [m EXCEPT !.cells[i].B = m.cells[i].B]

\* faulty variant: port B is set to the signal of port Y
setPortB_fromY(m, i) == [m EXCEPT !.cells[i].B = m.cells[i].Y]

\* faulty variant: port A is set to the signal of port B
setPortA_fromB(m, i) == [m EXCEPT !.cells[i].A = m.cells[i].B]

\* cell->setPort("\\B", cell->getPort("\\A"))
setPortB(m, i) == [m EXCEPT !.cells[i].B = m.cells[i].A]

\* for (auto cell : workset) cell->setPort("\\B", cell->getPort("\\A"))
RECURSIVE CommitWorkset(_, _)
CommitWorkset(m, W) ==
    IF W = {} THEN m
    ELSE LET i == CHOOSE x \in W : TRUE
         IN CommitWorkset(setPortB(m, i), W \ {i})

\* faulty variant: the commit counts one cell
CountWorkset_one(cnt, W) == cnt + 1

\* success_counter += GetSize(workset)
CountWorkset(cnt, W) == cnt + Cardinality(W)

\* faulty variant: the increment is missing
CountMarker_none(cnt) == cnt

\* success_counter++
CountMarker(cnt) == cnt + 1

\* if (!ez.solve()): the base case failed
BaseFailed(sat) == ~sat

\* faulty variant: the test of the induction query is inverted
StepHolds_inverted(sat) == sat

\* if (!ez.solve(new_step_not_consistent)): the induction step holds
StepHolds(sat) == ~sat

\* faulty variant: the test of the per-marker query is inverted
MarkerProven_inverted(sat) == sat

\* if (!ez.solve(ez.XOR(ez_a, ez_b))): the marker is proven
MarkerProven(sat) == ~sat

\* the time step of the per-marker queries
FallbackStep(ms) == ms + 1

\* faulty variant: the loop runs one step too far
LoopContinues_late(s, ms) == s <= ms + 1

\* step <= max_seq: the loop condition
LoopContinues(s, ms) == s <= ms

\* faulty variant: the time step of the loop is encoded again
NewTimestep_same(s) == s

\* create_timestep(step+1): the time step encoded in the loop body
NewTimestep(s) == s + 1

Query(k, s, c, sat) == [kind |-> k, step |-> s, cell |-> c, sat |-> sat]

----------------------------------------------------------------------------
(* State machine *)

----------------------------------------------------------------------------
(* opt_compare: signals, cells and their functions *)

\* RTLIL::SigBit: a constant bit (no wire, data 0 or 1) or bit `data` of a wire
Const(d) == [wire |-> "", data |-> d]
WireBit(w, i) == [wire |-> w, data |-> i]

\* SigSpec(State, width): `width` copies of one constant bit; index 1 is bit 0
ConstVector(d, width) == [i \in 1..width |-> Const(d)]

\* port A of the cell: A_WIDTH bits of wire A; port Y: Y_WIDTH bits of wire Y
PortA(a_width) == [i \in 1..a_width |-> WireBit("A", i - 1)]
PortY(y_width) == [i \in 1..y_width |-> WireBit("Y", i - 1)]

\* the signals given on port B: constants and bits of a wire, width 0..MaxBWidth
BBits == {Const(0), Const(1), WireBit("B", 0)}
BPorts == UNION {[1..n -> BBits] : n \in 0..MaxBWidth}

is_fully_const(sig) == \A i \in 1..Len(sig) : sig[i].wire = ""
is_fully_zero(sig) == \A i \in 1..Len(sig) : sig[i] = Const(0)

InternalTypes == {"$lt", "$ge", "$eq"}
CellTypes == InternalTypes \cup {"\\user"}

\* cell->type[0] == '$'
IsInternal(type) == type \in InternalTypes

CmpCells ==
    [type : CellTypes, selected : BOOLEAN, A_SIGNED : BOOLEAN,
     A_WIDTH : 0..MaxAWidth, Y_WIDTH : 1..MaxYWidth, B : BPorts]

\* the values of wire A: bit index -> 0 or 1
AValues(a_width) == [0..(a_width - 1) -> {0, 1}]

EvalBit(bit, av) == IF bit.wire = "" THEN bit.data ELSE av[bit.data]

RECURSIVE UnsignedValue(_, _)
UnsignedValue(av, width) ==
    IF width = 0 THEN 0
    ELSE av[width - 1] * 2^(width - 1) + UnsignedValue(av, width - 1)

SignedValue(av, width) ==
    IF width = 0 THEN 0
    ELSE UnsignedValue(av, width - 1) - av[width - 1] * 2^(width - 1)

\* the number a comparison cell reads on port A
AValue(c, av) ==
    IF c.A_SIGNED THEN SignedValue(av, c.A_WIDTH) ELSE UnsignedValue(av, c.A_WIDTH)

\* Y of a $lt or $ge cell whose B is zero: the result in bit 0, zeros above
CellY(c, av) ==
    [i \in 0..(c.Y_WIDTH - 1) |->
        IF i > 0 THEN 0
        ELSE IF c.type = "$lt" THEN (IF AValue(c, av) < 0 THEN 1 ELSE 0)
        ELSE (IF AValue(c, av) >= 0 THEN 1 ELSE 0)]

\* Y of a $not cell: every bit of A, zero-extended to Y_WIDTH, inverted
NotY(n, av) ==
    [i \in 0..(n.Y_WIDTH - 1) |->
        1 - (IF i < n.A_WIDTH THEN EvalBit(n.A[i + 1], av) ELSE 0)]

\* Y driven by a connection
ConnY(conn, av) == [i \in 0..(Len(conn.rhs) - 1) |-> EvalBit(conn.rhs[i + 1], av)]

\* module->addNot(name, sig_a, sig_y, is_signed)
addNot(name, sig_a, sig_y, is_signed) ==
    [name |-> name, type |-> "$not", A |-> sig_a, Y |-> sig_y,
     A_SIGNED |-> is_signed, A_WIDTH |-> Len(sig_a), Y_WIDTH |-> Len(sig_y)]

\* module->connect(lhs, rhs)
connect(lhs, rhs) == [lhs |-> lhs, rhs |-> rhs]

\* faulty variant: bit 0 of the vector is the lowest bit of A
le_y_lowbit(a, a_width, y_width) ==
    [ConstVector(0, y_width) EXCEPT ![1] = a[1]]

\* replace_le_cell: y of Y_WIDTH zeros with y[0] = a[a_width-1]
le_y(a, a_width, y_width) ==
    [ConstVector(0, y_width) EXCEPT ![1] = a[a_width]]

\* replace_ge_cell: a_prime of Y_WIDTH zeros with a_prime[0] = a[a_width-1]
ge_a_prime(a, a_width, y_width) ==
    [ConstVector(0, y_width) EXCEPT ![1] = a[a_width]]

\* the else branch of opt_compare.cc starts with return;
UnsignedRewritten(source) == source = "part_001"

Sources == {"opt_compare.cc", "part_001"}

\* the module as replace_le_cell leaves it: cells, added cells, connections
replace_le_cell(c, source, cells, nots, conns) ==
    LET a == PortA(c.A_WIDTH)
        y == ConstVector(0, c.Y_WIDTH)
    IN IF is_fully_const(c.B) /\ is_fully_zero(c.B)
       THEN IF c.A_SIGNED
            THEN IF c.A_WIDTH > 0
                 THEN [cells |-> cells \ {"cmp"}, nots |-> nots,
                       conns |-> Append(conns, connect(PortY(c.Y_WIDTH),
                                                       le_y(a, c.A_WIDTH, c.Y_WIDTH)))]
                 ELSE [cells |-> cells, nots |-> nots, conns |-> conns]
            ELSE IF UnsignedRewritten(source)
                 THEN [cells |-> cells \ {"cmp"}, nots |-> nots,
                       conns |-> Append(conns, connect(PortY(c.Y_WIDTH), y))]
                 ELSE [cells |-> cells, nots |-> nots, conns |-> conns]
       ELSE [cells |-> cells, nots |-> nots, conns |-> conns]

\* the module as replace_ge_cell leaves it
replace_ge_cell(c, source, cells, nots, conns) ==
    LET a == PortA(c.A_WIDTH)
        y == PortY(c.Y_WIDTH)
    IN IF is_fully_const(c.B) /\ is_fully_zero(c.B)
       THEN IF c.A_SIGNED
            THEN IF c.A_WIDTH > 0
                 THEN [cells |-> (cells \ {"cmp"}) \cup {"$not"},
                       nots |-> Append(nots, addNot("$not",
                                           ge_a_prime(a, c.A_WIDTH, c.Y_WIDTH), y, FALSE)),
                       conns |-> conns]
                 ELSE [cells |-> cells, nots |-> nots, conns |-> conns]
            ELSE IF UnsignedRewritten(source)
                 THEN [cells |-> cells \ {"cmp"}, nots |-> nots,
                       conns |-> Append(conns, connect(PortY(c.Y_WIDTH),
                                                       ConstVector(1, c.Y_WIDTH)))]
                 ELSE [cells |-> cells, nots |-> nots, conns |-> conns]
       ELSE [cells |-> cells, nots |-> nots, conns |-> conns]

\* the log lines of the two functions
le_log(c, source) ==
    IF ~(is_fully_const(c.B) /\ is_fully_zero(c.B)) THEN <<>>
    ELSE IF c.A_SIGNED THEN <<"Found x < 0 (signed), replacing with the last bit">>
    ELSE IF UnsignedRewritten(source)
         THEN <<"Found x < 0 (unsigned), replacing with constant 0">>
    ELSE <<>>

ge_log(c, source) ==
    IF ~(is_fully_const(c.B) /\ is_fully_zero(c.B)) THEN <<>>
    ELSE IF c.A_SIGNED \/ UnsignedRewritten(source)
         THEN <<"Found x >= 0 (signed), optimizing">>
    ELSE <<>>

\* no opt_compare command is running
CmpIdle ==
    /\ cmp_source = "opt_compare.cc"
    /\ cmp_cell = [type |-> "$eq", selected |-> FALSE, A_SIGNED |-> FALSE,
                   A_WIDTH |-> 0, Y_WIDTH |-> 1, B |-> <<>>]
    /\ cmp_cells = {}
    /\ cmp_not = <<>>
    /\ cmp_connections = <<>>
    /\ cmp_sorted = <<>>
    /\ cmp_log = <<>>
    /\ cmp_pc = "idle"

Init ==
    /\ CmpIdle
    /\ args \in ArgLists
    /\ design \in Designs
    /\ pre = design
    /\ pc = "parse"
    /\ runs = 1
    /\ printed = <<>>
    /\ modidx = 0
    /\ max_seq = DefaultMaxSeq
    /\ total = 0
    /\ workset = {}
    /\ step = 0
    /\ success_counter = 0
    /\ todo = {}
    /\ ez_step_is_consistent = <<>>
    /\ assumed = {}
    /\ bound = {}
    /\ cell_warn_cache = {}
    /\ warnings = 0
    /\ queries = <<>>
    /\ nworkers = 0
    /\ wmod = 0

workerVars == <<workset, step, success_counter, todo, ez_step_is_consistent,
                assumed, bound, cell_warn_cache, warnings, queries, wmod>>

\* execute, up to the module loop: counters, option loop, extra_args
Execute ==
    /\ pc = "parse"
    /\ LET r == ParseOptions(args, 1, DefaultMaxSeq) IN
       /\ max_seq' = r.max_seq
       /\ pc' = IF extra_args_ok(args, r.argidx) THEN "modules" ELSE "error"
    /\ total' = 0
    /\ modidx' = 0
    /\ UNCHANGED cmpVars
    /\ UNCHANGED <<args, design, runs, printed, nworkers, pre, workerVars>>

\* a module without selected unproven $equiv cells: log and continue
SkipModule ==
    /\ pc = "modules"
    /\ modidx < Len(design)
    /\ unproven_equiv_cells(design[modidx + 1]) = {}
    /\ modidx' = modidx + 1
    /\ UNCHANGED cmpVars
    /\ UNCHANGED <<args, design, pc, runs, printed, max_seq, total, nworkers,
                   pre, workerVars>>

\* worker construction and run() up to the loop head: create_timestep(1)
StartWorker ==
    /\ pc = "modules"
    /\ modidx < Len(design)
    /\ LET m == design[modidx + 1]
           W == unproven_equiv_cells(m)
       IN /\ W # {}
          /\ workset' = W
          /\ todo' = W
          /\ cell_warn_cache' = NewWarnings(m, {})
          /\ warnings' = Cardinality(NewWarnings(m, {}))
          /\ ez_step_is_consistent' = create_timestep(m, <<>>, 1)
    /\ modidx' = modidx + 1
    /\ wmod' = modidx + 1
    /\ nworkers' = nworkers + 1
    /\ success_counter' = 0
    /\ step' = 1
    /\ assumed' = {}
    /\ bound' = {}
    /\ queries' = <<>>
    /\ pc' = IF LoopContinues(1, max_seq) THEN "base" ELSE "fallback"
    /\ UNCHANGED cmpVars
    /\ UNCHANGED <<args, design, runs, printed, max_seq, total, pre>>

\* loop body up to the induction query: assume consistent[step], base-case
\* query, then create_timestep(step+1) and bind, or break
BaseCase ==
    /\ pc = "base"
    /\ LET m == design[modidx]
           asm == ez_assume(assumed, step)
       IN \E sat \in {ez_solve(m, ez_step_is_consistent, asm, bound, NoAssumption)} :
          /\ assumed' = asm
          /\ queries' = Append(queries, Query("base", step, 0, sat))
          /\ IF BaseFailed(sat)
             THEN /\ pc' = "fallback"
                  /\ UNCHANGED <<ez_step_is_consistent, bound, cell_warn_cache, warnings>>
             ELSE IF StepUndefined(ez_step_is_consistent, NewTimestep(step))
             THEN /\ ez_step_is_consistent' = create_timestep(m, ez_step_is_consistent, NewTimestep(step))
                  /\ cell_warn_cache' = cell_warn_cache \cup NewWarnings(m, cell_warn_cache)
                  /\ warnings' = warnings + Cardinality(NewWarnings(m, cell_warn_cache))
                  /\ bound' = ez_bind(bound, step + 1)
                  /\ pc' = "induct"
             ELSE /\ pc' = "abort"
                  /\ UNCHANGED <<ez_step_is_consistent, bound, cell_warn_cache, warnings>>
    /\ UNCHANGED cmpVars
    /\ UNCHANGED <<args, design, runs, printed, modidx, max_seq, total, workset,
                   step, success_counter, todo, nworkers, wmod, pre>>

\* the induction query of the loop body: commit the workset and return, or
\* go on to the next step or to the per-marker loop
InductStep ==
    /\ pc = "induct"
    /\ LET m == design[modidx]
       IN \E sat \in {ez_solve(m, ez_step_is_consistent, assumed, bound,
                               NotConsistent(step + 1))} :
          /\ queries' = Append(queries, Query("step", step, 0, sat))
          /\ IF StepHolds(sat)
             THEN /\ design' = [design EXCEPT ![modidx] = CommitWorkset(m, workset)]
                  /\ success_counter' = CountWorkset(success_counter, workset)
                  /\ total' = total + success_counter'
                  /\ pc' = "modules"
                  /\ step' = step
             ELSE /\ step' = step + 1
                  /\ pc' = IF LoopContinues(step + 1, max_seq) THEN "base" ELSE "fallback"
                  /\ UNCHANGED <<design, success_counter, total>>
    /\ UNCHANGED cmpVars
    /\ UNCHANGED <<args, runs, printed, modidx, max_seq, workset, todo,
                   ez_step_is_consistent, assumed, bound, cell_warn_cache,
                   warnings, nworkers, wmod, pre>>

\* one iteration of the per-marker loop; after the last one run() returns
FallbackMarker ==
    /\ pc = "fallback"
    /\ \E cell \in todo :
          LET m == design[modidx]
              sm == SigMap(m)
              bit_a == sm[m.cells[cell].A]
              bit_b == sm[m.cells[cell].B]
          IN \E sat \in {ez_solve(m, ez_step_is_consistent, assumed, bound,
                                  Xor(bit_a, bit_b, FallbackStep(max_seq)))} :
             LET sc == IF MarkerProven(sat) THEN CountMarker(success_counter)
                       ELSE success_counter
             IN /\ queries' = Append(queries, Query("fallback", FallbackStep(max_seq), cell, sat))
                /\ design' = IF MarkerProven(sat)
                             THEN [design EXCEPT ![modidx] = setPortB(m, cell)]
                             ELSE design
                /\ success_counter' = sc
                /\ todo' = todo \ {cell}
                /\ IF todo \ {cell} = {}
                   THEN pc' = "modules" /\ total' = total + sc
                   ELSE pc' = "fallback" /\ total' = total
    /\ UNCHANGED cmpVars
    /\ UNCHANGED <<args, runs, printed, modidx, max_seq, workset, step,
                   ez_step_is_consistent, assumed, bound, cell_warn_cache,
                   warnings, nworkers, wmod, pre>>

\* after the module loop: log the total
Finish ==
    /\ pc = "modules"
    /\ modidx = Len(design)
    /\ printed' = Append(printed, total)
    /\ pc' = "done"
    /\ UNCHANGED cmpVars
    /\ UNCHANGED <<args, design, runs, modidx, max_seq, total, nworkers, pre,
                   workerVars>>

\* the same command is given again on the design as it is now
Rerun ==
    /\ pc = "done"
    /\ runs < MaxRuns
    /\ runs' = runs + 1
    /\ pc' = "parse"
    /\ pre' = design
    /\ nworkers' = 0
    /\ queries' = <<>>
    /\ wmod' = 0
    /\ UNCHANGED cmpVars
    /\ UNCHANGED <<args, design, printed, modidx, max_seq, total, workset, step,
                   success_counter, todo, ez_step_is_consistent, assumed, bound,
                   cell_warn_cache, warnings>>

Next ==
    \/ Execute
    \/ SkipModule
    \/ StartWorker
    \/ BaseCase
    \/ InductStep
    \/ FallbackMarker
    \/ Finish
    \/ Rerun

Spec == Init /\ [][Next]_vars

\* the command is a sequential program: it takes its next step when it has one
SpecLive == Init /\ [][Next]_vars /\ WF_vars(Next)

----------------------------------------------------------------------------
(* opt_compare: the pass *)

\* no equiv_induct command is running
EquivIdle ==
    /\ args = <<>>
    /\ design = <<>>
    /\ pre = <<>>
    /\ pc = "idle"
    /\ runs = 0
    /\ printed = <<>>
    /\ modidx = 0
    /\ max_seq = DefaultMaxSeq
    /\ total = 0
    /\ workset = {}
    /\ step = 0
    /\ success_counter = 0
    /\ todo = {}
    /\ ez_step_is_consistent = <<>>
    /\ assumed = {}
    /\ bound = {}
    /\ cell_warn_cache = {}
    /\ warnings = 0
    /\ queries = <<>>
    /\ nworkers = 0
    /\ wmod = 0

\* a selected module with one cell, before OptCompare::execute
InitCmp ==
    /\ EquivIdle
    /\ cmp_source \in Sources
    /\ cmp_cell \in CmpCells
    /\ cmp_cells = {"cmp"}
    /\ cmp_not = <<>>
    /\ cmp_connections = <<>>
    /\ cmp_sorted = <<>>
    /\ cmp_log = <<>>
    /\ cmp_pc = "start"

\* optimize_compares up to cells.sort(): the selected cells with a $ type
CollectCells ==
    /\ cmp_pc = "start"
    /\ cmp_sorted' = IF cmp_cell.selected /\ IsInternal(cmp_cell.type)
                     THEN <<"cmp">> ELSE <<>>
    /\ cmp_log' = IF cmp_source = "opt_compare.cc"
                  THEN Append(cmp_log, "Executing OPT_COMPARE pass.")
                  ELSE Append(cmp_log, "module refcount_cells_")
    /\ cmp_pc' = "cells"
    /\ UNCHANGED <<cmp_source, cmp_cell, cmp_cells, cmp_not, cmp_connections>>
    /\ UNCHANGED equivVars

\* the loop over cells.sorted at a $lt cell
VisitLt ==
    /\ cmp_pc = "cells"
    /\ cmp_sorted # <<>>
    /\ cmp_cell.type = "$lt"
    /\ LET r == replace_le_cell(cmp_cell, cmp_source, cmp_cells, cmp_not, cmp_connections)
       IN /\ cmp_cells' = r.cells
          /\ cmp_not' = r.nots
          /\ cmp_connections' = r.conns
    /\ cmp_log' = cmp_log \o le_log(cmp_cell, cmp_source)
    /\ cmp_sorted' = Tail(cmp_sorted)
    /\ UNCHANGED <<cmp_source, cmp_cell, cmp_pc>>
    /\ UNCHANGED equivVars

\* the loop over cells.sorted at a $ge cell
VisitGe ==
    /\ cmp_pc = "cells"
    /\ cmp_sorted # <<>>
    /\ cmp_cell.type = "$ge"
    /\ LET r == replace_ge_cell(cmp_cell, cmp_source, cmp_cells, cmp_not, cmp_connections)
       IN /\ cmp_cells' = r.cells
          /\ cmp_not' = r.nots
          /\ cmp_connections' = r.conns
    /\ cmp_log' = cmp_log \o ge_log(cmp_cell, cmp_source)
    /\ cmp_sorted' = Tail(cmp_sorted)
    /\ UNCHANGED <<cmp_source, cmp_cell, cmp_pc>>
    /\ UNCHANGED equivVars

\* the loop over cells.sorted at a cell of another type
VisitOther ==
    /\ cmp_pc = "cells"
    /\ cmp_sorted # <<>>
    /\ cmp_cell.type \notin {"$lt", "$ge"}
    /\ cmp_sorted' = Tail(cmp_sorted)
    /\ UNCHANGED <<cmp_source, cmp_cell, cmp_cells, cmp_not, cmp_connections,
                   cmp_log, cmp_pc>>
    /\ UNCHANGED equivVars

\* the loop over cells.sorted has ended
CmpReturn ==
    /\ cmp_pc = "cells"
    /\ cmp_sorted = <<>>
    /\ cmp_pc' = "done"
    /\ cmp_log' = IF cmp_source = "opt_compare.cc" THEN cmp_log
                  ELSE Append(cmp_log, "module refcount_cells_")
    /\ UNCHANGED <<cmp_source, cmp_cell, cmp_cells, cmp_not, cmp_connections,
                   cmp_sorted>>
    /\ UNCHANGED equivVars

NextCmp ==
    \/ CollectCells
    \/ VisitLt
    \/ VisitGe
    \/ VisitOther
    \/ CmpReturn

SpecCmp == InitCmp /\ [][NextCmp]_vars

----------------------------------------------------------------------------
(* Properties *)

\* the cells of module i whose port B differs from what it was when the
\* command started
Rewritten(i) ==
    {c \in CellIds(pre[i]) : design[i].cells[c].B # pre[i].cells[c].B}

InWorker == pc \in {"base", "induct", "fallback"}

\* a worker exists or has just returned; queries is its log
WorkerSeen == wmod > 0 /\ pc \in {"base", "induct", "fallback", "modules", "done"}

LastQuery(qs) == qs[Len(qs)]

\* C1: a marker's port B changes only in the transition that issues a query
\* answered UNSAT which covers the marker (the induction query of the whole
\* workset, or the marker's own per-marker query), and the new B is the
\* marker's A; a marker whose per-marker query was answered SAT keeps its B.
C1_Soundness ==
    /\ [][\A i \in 1..Len(design) : \A c \in CellIds(design[i]) :
            design'[i].cells[c].B # design[i].cells[c].B
            => /\ i = wmod /\ c \in workset
               /\ design'[i].cells[c].B = design[i].cells[c].A
               /\ Len(queries') = Len(queries) + 1
               /\ ~LastQuery(queries').sat
               /\ \/ LastQuery(queries').kind = "step"
                  \/ /\ LastQuery(queries').kind = "fallback"
                     /\ LastQuery(queries').cell = c]_vars
    /\ [](WorkerSeen =>
            \A k \in 1..Len(queries) :
               (queries[k].kind = "fallback" /\ queries[k].sat)
               => queries[k].cell \notin Rewritten(wmod))

C1_Witness ==
    /\ WorkerSeen
    /\ \E k \in 1..Len(queries) :
          /\ queries[k].kind = "fallback" /\ ~queries[k].sat
          /\ queries[k].cell \in Rewritten(wmod)
    /\ \E k \in 1..Len(queries) :
          /\ queries[k].kind = "fallback" /\ queries[k].sat
          /\ queries[k].cell \notin Rewritten(wmod)

\* C2: once a base-case query of the worker was answered UNSAT, no marker of
\* the workset is rewritten and the worker's success count is 0.
C2_BaseFailureAbandons ==
    (WorkerSeen /\ \E k \in 1..Len(queries) :
                      queries[k].kind = "base" /\ ~queries[k].sat)
    => /\ success_counter = 0
       /\ Rewritten(wmod) \cap workset = {}

\* C3: the transition that issues an induction query answered UNSAT sets
\* port B of every workset marker to its port A, adds |W| to the success
\* count and returns from the worker; that query is the last of the worker.
C3_WholeWorksetCommit ==
    /\ [][(Len(queries') = Len(queries) + 1
           /\ LastQuery(queries').kind = "step" /\ ~LastQuery(queries').sat)
          => /\ \A c \in workset :
                   design'[wmod].cells[c].B = design[wmod].cells[c].A
             /\ success_counter' = success_counter + Cardinality(workset)
             /\ total' = total + success_counter'
             /\ pc' = "modules"]_vars
    /\ [](WorkerSeen =>
            \A k \in 1..Len(queries) :
               (queries[k].kind = "step" /\ ~queries[k].sat)
               => /\ k = Len(queries)
                  /\ ~InWorker
                  /\ success_counter = Cardinality(workset)
                  /\ \A c \in workset :
                        design[wmod].cells[c].B = design[wmod].cells[c].A)

C3_Witness ==
    /\ WorkerSeen
    /\ queries # <<>>
    /\ LastQuery(queries).kind = "step" /\ ~LastQuery(queries).sat
    /\ Cardinality(workset) = 2
    /\ success_counter = 2
    /\ Rewritten(wmod) = workset

\* the markers of a module whose A and B have the same canonical bit
CanonProven(m) ==
    {c \in CellIds(m) :
        /\ m.cells[c].type = "$equiv"
        /\ Canon(m.conns, m.cells[c].A) = Canon(m.conns, m.cells[c].B)}

UnprovenLeft == \E i \in 1..Len(design) : unproven_equiv_cells(design[i]) # {}

\* C4: when the command is given again with the same bound right after a
\* run, the later run logs a total of 0 (no marker is rewritten by it).
C4_Idempotent ==
    /\ \A r \in 2..Len(printed) : printed[r] = 0
    /\ runs >= 2 => /\ design = pre
                    /\ pc # "parse" => total = 0

C4_Witness ==
    /\ Len(printed) >= 2
    /\ printed[1] > 0
    /\ nworkers > 0
    /\ UnprovenLeft
    /\ \E k \in 1..Len(queries) : queries[k].kind = "fallback" /\ queries[k].sat

\* C5: every marker whose A and B were canonically equal when the command
\* started still has canonically equal A and B, in every state of the run,
\* so the number of such markers never drops below the number at the start.
C5_ProvenNeverLost ==
    \A i \in 1..Len(design) :
        /\ CanonProven(pre[i]) \subseteq CanonProven(design[i])
        /\ Cardinality(CanonProven(design[i])) >= Cardinality(CanonProven(pre[i]))

C5_Witness ==
    /\ pc = "done"
    /\ \E i \in 1..Len(design) :
          /\ Rewritten(i) \cap CanonProven(pre[i]) # {}
          /\ Rewritten(i) \ CanonProven(pre[i]) # {}
          /\ Cardinality(CanonProven(design[i])) > Cardinality(CanonProven(pre[i]))

\* C6: a step of the run leaves the set of modules, the cells of a module,
\* its connections and its selection as they are, and leaves the type and
\* the ports A and Y of every cell as they are; port B of a cell either
\* stays or, for a marker of the current workset, becomes the cell's port A.
C6_Frame ==
    [][/\ Len(design') = Len(design)
       /\ \A i \in 1..Len(design) :
             /\ design'[i].conns = design[i].conns
             /\ design'[i].selected = design[i].selected
             /\ Len(design'[i].cells) = Len(design[i].cells)
             /\ \A c \in CellIds(design[i]) :
                   /\ design'[i].cells[c].type = design[i].cells[c].type
                   /\ design'[i].cells[c].A = design[i].cells[c].A
                   /\ design'[i].cells[c].Y = design[i].cells[c].Y
                   /\ \/ design'[i].cells[c].B = design[i].cells[c].B
                      \/ /\ i = wmod /\ c \in workset
                         /\ design[i].cells[c].type = "$equiv"
                         /\ design'[i].cells[c].B = design[i].cells[c].A]_vars

C6_Witness ==
    /\ pc = "done"
    /\ \E i \in 1..Len(design) :
          /\ Rewritten(i) # {}
          /\ \E c \in CellIds(design[i]) \ selected_cells(design[i]) :
                /\ design[i].cells[c].type = "$equiv"
                /\ design[i].cells[c].A # design[i].cells[c].B

\* a word that is an integer: an optional sign and at least one digit
IsInteger(w) ==
    LET d == IF w # <<>> /\ Head(w) = "-" THEN Tail(w) ELSE w IN
    d # <<>> /\ \A i \in 1..Len(d) : IsDigit(d[i])

\* -seq is given without a value, or with a value that is no integer >= 1
SeqArgBad(a) ==
    \E i \in 2..Len(a) :
        /\ a[i] = SeqWord
        /\ \/ i = Len(a)
           \/ ~IsInteger(a[i + 1])
           \/ atoi(a[i + 1]) < 1

\* C7: no worker runs with a bound below 1; when -seq has no value or a
\* value that is not an integer >= 1, the command ends in the argument error
\* before any worker is constructed and the design is left as it was.
C7_BoundValidated ==
    /\ nworkers > 0 => max_seq >= 1
    /\ SeqArgBad(args) => /\ nworkers = 0
                          /\ design = pre
                          /\ pc \in {"parse", "error"}

\* no selected marker of the module has ports A and B that differ as written
NoSelectedUnproven(m) ==
    \A c \in CellIds(m) :
        (c \in m.selected /\ m.cells[c].type = "$equiv")
        => m.cells[c].A = m.cells[c].B

\* C8: when the driver is at a module without a selected marker whose A and
\* B differ, its step constructs no worker, issues no query, changes no cell,
\* leaves the total as it is and moves on to the next module.
C8_EmptyWorksetSkipped ==
    [][(pc = "modules" /\ modidx < Len(design)
        /\ NoSelectedUnproven(design[modidx + 1]))
       => /\ nworkers' = nworkers
          /\ queries' = queries
          /\ wmod' = wmod
          /\ design' = design
          /\ total' = total
          /\ modidx' = modidx + 1
          /\ pc' = "modules"]_vars

C8_Witness ==
    /\ Len(design) = 2
    /\ NoSelectedUnproven(pre[1])
    /\ \E c \in CellIds(pre[1]) : pre[1].cells[c].A # pre[1].cells[c].B
    /\ modidx = 2 /\ wmod = 2 /\ nworkers = 1
    /\ runs = 1

RECURSIVE SumRewritten(_)
SumRewritten(i) ==
    IF i = 0 THEN 0 ELSE Cardinality(Rewritten(i)) + SumRewritten(i - 1)

\* C9: the worker's success count equals the number of markers of its module
\* whose port B was rewritten, is at most |W|, and the rewritten markers were
\* selected and unproven when the workset was built; the driver's total is
\* the number of rewritten markers of the modules processed, and the total
\* logged at the end is the number of rewritten markers of the design.
C9_TotalEqualsRewrites ==
    /\ WorkerSeen =>
          /\ success_counter = Cardinality(Rewritten(wmod))
          /\ success_counter <= Cardinality(workset)
          /\ Rewritten(wmod) \subseteq workset
          /\ \A c \in workset :
                /\ c \in pre[wmod].selected
                /\ pre[wmod].cells[c].type = "$equiv"
                /\ pre[wmod].cells[c].A # pre[wmod].cells[c].B
    /\ pc = "modules" => total = SumRewritten(modidx)
    /\ pc = "done" => printed[Len(printed)] = SumRewritten(Len(design))

C9_Witness ==
    /\ pc = "done"
    /\ runs = 1
    /\ printed = <<3>>
    /\ Cardinality(Rewritten(1)) = 2
    /\ Cardinality(Rewritten(2)) = 1
    /\ Cardinality(workset) = 2

\* the first run on a design of one module of two flip-flops with the same
\* data function has ended
TwoFlopsDone ==
    /\ runs = 1
    /\ pc = "done"
    /\ pre \in {<<TwoFlops>>, <<TwoFlopsFb>>}

\* C10 as stated: with -seq 2 the induction query is SAT at step 1 and UNSAT
\* at step 2; with -seq 1 it is SAT and the per-marker query is then UNSAT.
C10_AsStated ==
    TwoFlopsDone =>
       /\ max_seq = 2 =>
             queries = <<Query("base", 1, 0, TRUE), Query("step", 1, 0, TRUE),
                         Query("base", 2, 0, TRUE), Query("step", 2, 0, FALSE)>>
       /\ max_seq = 1 =>
             queries = <<Query("base", 1, 0, TRUE), Query("step", 1, 0, TRUE),
                         Query("fallback", 2, 5, FALSE)>>

\* C10 amended: with -seq 1 and with -seq 2 the base case of step 1 is SAT
\* and the induction query of step 1 is UNSAT; the marker is rewritten by the
\* commit of the workset and neither a step-2 nor a per-marker query is issued.
C10_InductionAtStepOne ==
    (TwoFlopsDone /\ max_seq \in {1, 2}) =>
       /\ queries = <<Query("base", 1, 0, TRUE), Query("step", 1, 0, FALSE)>>
       /\ design[1].cells[5].B = design[1].cells[5].A
       /\ Rewritten(1) = {5}
       /\ printed = <<1>>

C10_Witness ==
    /\ TwoFlopsDone
    /\ max_seq = 1
    /\ pre = <<TwoFlops>>
    /\ Rewritten(1) = {5}

----------------------------------------------------------------------------
(* Order and meaning of the solver queries *)

BaseQueries == {k \in 1..Len(queries) : queries[k].kind = "base"}
StepQueries == {k \in 1..Len(queries) : queries[k].kind = "step"}
FallbackQueries == {k \in 1..Len(queries) : queries[k].kind = "fallback"}

\* C11 as stated: the log starts with base(1); base(i) follows step(i-1)
\* answered SAT, step(i) directly follows base(i) answered SAT; a per-marker
\* query follows step(k) answered SAT or another per-marker query; nothing
\* follows a base or induction query answered UNSAT (for a bound k >= 1).
C11_QueryOrder ==
    (WorkerSeen /\ max_seq >= 1) =>
       \A k \in 1..Len(queries) :
          LET q == queries[k] IN
          /\ k = 1 => q = Query("base", 1, 0, q.sat)
          /\ (k > 1 /\ q.kind = "base") =>
                /\ queries[k - 1] = Query("step", q.step - 1, 0, TRUE)
                /\ q.step <= max_seq
          /\ q.kind = "step" =>
                /\ k > 1
                /\ queries[k - 1] = Query("base", q.step, 0, TRUE)
          /\ (k > 1 /\ q.kind = "fallback") =>
                \/ queries[k - 1].kind = "fallback"
                \/ queries[k - 1] = Query("step", max_seq, 0, TRUE)
          /\ (q.kind \in {"base", "step"} /\ ~q.sat) => k = Len(queries)

\* the module of the worker as it was when the workset was built
WorkerModule == pre[wmod]

\* whether the cell clauses together with consistent[1..i] are satisfiable
HypothesesSatisfiable(i) ==
    ez_solve(WorkerModule, ez_step_is_consistent, 1..i, {}, NoAssumption)

\* C12 as stated: every base-case query at step i is answered SAT exactly
\* when the cell clauses of steps 1..i with consistent[1..i] are satisfiable.
C12_BaseCaseMeaning ==
    WorkerSeen =>
       \A k \in BaseQueries :
          queries[k].sat = HypothesesSatisfiable(queries[k].step)

\* the per-marker query of a cell, asked of the module as it was when the
\* workset was built, under the hypotheses asm and the bound literals bnd
MarkerQuery(c, asm, bnd) ==
    LET m == WorkerModule
        sm == SigMap(m)
    IN ez_solve(m, ez_step_is_consistent, asm, bnd,
                Xor(sm[m.cells[c].A], sm[m.cells[c].B], max_seq + 1))

\* C13 as stated: at every per-marker query consistent[i] is assumed for
\* exactly the steps 1..k, the query is at step k+1, and its answer is the
\* one decided under these hypotheses alone.
C13_FallbackHypotheses ==
    (WorkerSeen /\ FallbackQueries # {}) =>
       /\ assumed = 1..max_seq
       /\ \A k \in FallbackQueries :
             /\ queries[k].step = max_seq + 1
             /\ queries[k].sat = MarkerQuery(queries[k].cell, 1..max_seq, {})

\* C14: the answer to the per-marker query of a cell is the answer the
\* solver state left by the loop gives for that cell on the module as it was
\* before any rewrite, whatever cells were visited and rewritten before it;
\* when the sweep is over the rewritten cells are those with answer UNSAT.
C14_FallbackIndependent ==
    WorkerSeen =>
       /\ \A k \in FallbackQueries :
             queries[k].sat = MarkerQuery(queries[k].cell, assumed, bound)
       /\ (FallbackQueries # {} /\ ~InWorker) =>
             Rewritten(wmod) = {c \in workset : ~MarkerQuery(c, assumed, bound)}

C14_Witness ==
    /\ WorkerSeen /\ ~InWorker
    /\ Len(queries) >= 2
    /\ queries[Len(queries)].kind = "fallback" /\ queries[Len(queries)].sat
    /\ queries[Len(queries) - 1].kind = "fallback" /\ ~queries[Len(queries) - 1].sat
    /\ queries[Len(queries) - 1].cell > queries[Len(queries)].cell
    /\ Rewritten(wmod) = {queries[Len(queries) - 1].cell}

----------------------------------------------------------------------------
(* Time steps, aliased markers, warnings, termination *)

\* C15: the assertion of create_timestep never fails; the steps defined are
\* 1..n; within one worker a step once defined keeps its definition and a
\* transition defines at most one new step.
C15_ConsistentDefinedOnce ==
    /\ [](pc # "abort")
    /\ [](WorkerSeen =>
            \E n \in 1..(IF max_seq >= 1 THEN max_seq + 1 ELSE 1) :
               DOMAIN ez_step_is_consistent = 1..n)
    /\ [][nworkers' = nworkers =>
            /\ \A s \in DOMAIN ez_step_is_consistent :
                  /\ s \in DOMAIN ez_step_is_consistent'
                  /\ ez_step_is_consistent'[s] = ez_step_is_consistent[s]
            /\ Cardinality(DOMAIN ez_step_is_consistent')
                  <= Cardinality(DOMAIN ez_step_is_consistent) + 1]_vars

C15_Witness ==
    /\ InWorker
    /\ pc = "base"
    /\ step = 2
    /\ DOMAIN ez_step_is_consistent = {1, 2}

\* the selected markers whose A and B differ as written and are canonically equal
AliasedMarkers(m) ==
    {c \in selected_cells(m) :
        /\ m.cells[c].type = "$equiv"
        /\ m.cells[c].A # m.cells[c].B
        /\ Canon(m.conns, m.cells[c].A) = Canon(m.conns, m.cells[c].B)}

\* C16: an aliased marker is in the workset, no step's consistent holds a
\* term for it, and when the worker has returned it is rewritten (B = A)
\* and counted.
C16_AliasedMarker ==
    WorkerSeen =>
       /\ AliasedMarkers(WorkerModule) \subseteq workset
       /\ \A s \in DOMAIN ez_step_is_consistent :
             /\ \A t \in ez_step_is_consistent[s] : t[1] # t[2]
             /\ \A c \in AliasedMarkers(WorkerModule) :
                   <<Canon(WorkerModule.conns, WorkerModule.cells[c].A),
                     Canon(WorkerModule.conns, WorkerModule.cells[c].B)>>
                   \notin ez_step_is_consistent[s]
       /\ ~InWorker =>
             /\ AliasedMarkers(WorkerModule) \subseteq Rewritten(wmod)
             /\ \A c \in AliasedMarkers(WorkerModule) :
                   design[wmod].cells[c].B = design[wmod].cells[c].A
             /\ success_counter >= Cardinality(AliasedMarkers(WorkerModule))

C16_Witness ==
    /\ WorkerSeen /\ ~InWorker
    /\ AliasedMarkers(WorkerModule) # {}
    /\ Rewritten(wmod) = AliasedMarkers(WorkerModule)
    /\ workset # Rewritten(wmod)
    /\ StepQueries # {}

\* the selected cells whose type has no SAT model
Unmodellable(m) == {i \in selected_cells(m) : m.cells[i].type \notin Modellable}

\* C17: whatever the number of time steps encoded, the worker has logged one
\* warning for each selected cell without a SAT model and no other; the
\* worker does not abort, and a step that logs a warning rewrites nothing.
C17_WarningOnce ==
    /\ [](WorkerSeen =>
            /\ cell_warn_cache = Unmodellable(WorkerModule)
            /\ warnings = Cardinality(cell_warn_cache)
            /\ pc # "abort")
    /\ [][warnings' # warnings => design' = design]_vars

C17_Witness ==
    /\ WorkerSeen /\ ~InWorker
    /\ warnings = 1
    /\ DOMAIN ez_step_is_consistent = {1, 2}
    /\ Rewritten(wmod) # {}
    /\ Rewritten(wmod) # workset

AllProven == \E k \in StepQueries : ~queries[k].sat
Diverged == \E k \in BaseQueries : ~queries[k].sat
PartialEnd ==
    /\ \E k \in StepQueries : queries[k] = Query("step", max_seq, 0, TRUE)
    /\ Cardinality(FallbackQueries) = Cardinality(workset)

Count(b) == IF b THEN 1 ELSE 0

\* C18: for a bound k >= 1 a worker issues at most k base-case queries, k
\* induction queries and |W| per-marker queries and encodes at most k+1 time
\* steps; it always returns, and has then ended in exactly one of AllProven,
\* Diverged and Partial.
C18_Termination ==
    /\ []((WorkerSeen /\ max_seq >= 1) =>
            /\ Cardinality(BaseQueries) <= max_seq
            /\ Cardinality(StepQueries) <= max_seq
            /\ Cardinality(FallbackQueries) <= Cardinality(workset)
            /\ Cardinality(DOMAIN ez_step_is_consistent) <= max_seq + 1
            /\ ~InWorker =>
                  Count(AllProven) + Count(Diverged) + Count(PartialEnd) = 1)
    /\ ((InWorker /\ max_seq >= 1) ~> (pc = "modules"))

C18_Witness ==
    /\ WorkerSeen /\ ~InWorker
    /\ max_seq = 1
    /\ PartialEnd
    /\ Cardinality(BaseQueries) = 1
    /\ Cardinality(StepQueries) = 1
    /\ Cardinality(FallbackQueries) = 2
    /\ Cardinality(DOMAIN ez_step_is_consistent) = 2

----------------------------------------------------------------------------
(* opt_compare keeps the function of the cells it replaces *)

BZero == is_fully_const(cmp_cell.B) /\ is_fully_zero(cmp_cell.B)

\* the signal on Y for the value av of A: driven by the comparison cell while
\* it is in the module, else by the added $not cell, else by the connection
DrivenY(av) ==
    IF "cmp" \in cmp_cells THEN CellY(cmp_cell, av)
    ELSE IF cmp_not # <<>> THEN NotY(cmp_not[1], av)
    ELSE ConnY(cmp_connections[1], av)

FunctionKept == \A av \in AValues(cmp_cell.A_WIDTH) : DrivenY(av) = CellY(cmp_cell, av)

CellLeft ==
    /\ cmp_cells = {"cmp"}
    /\ cmp_not = <<>>
    /\ cmp_connections = <<>>

\* C19: after the pass, the Y of a signed $ge cell with B zero and
\* A_WIDTH > 0 is for every value of A the Y of the original cell.
C19_GeFunctionKept ==
    (/\ cmp_pc = "done"
     /\ cmp_cell.type = "$ge"
     /\ cmp_cell.A_SIGNED
     /\ BZero
     /\ cmp_cell.A_WIDTH > 0) => FunctionKept

LtReplaced ==
    /\ cmp_cells = {}
    /\ cmp_not = <<>>
    /\ cmp_connections =
          <<connect(PortY(cmp_cell.Y_WIDTH),
                    [i \in 1..cmp_cell.Y_WIDTH |->
                        IF i = 1 THEN WireBit("A", cmp_cell.A_WIDTH - 1) ELSE Const(0)])>>
    /\ FunctionKept

LeftAlone ==
    (cmp_cell.type \in {"$lt", "$ge"} /\ (~BZero \/ ~cmp_cell.A_SIGNED)) => CellLeft

====
